---------------------------- MODULE Spec2Model ----------------------------
(***************************************************************************)
(* Model of src/App.tsx: the App component of the Komodo image generator.  *)
(*                                                                         *)
(* The component state is the five useState cells (prompt, generatedImage, *)
(* uploadedImage, isLoading, error) and the value of the file input behind *)
(* fileInputRef.  Around it the model keeps what the handlers do to the    *)
(* browser: the object URLs created and revoked, the link saved by the     *)
(* download, the cause written to the console, and the asynchronous        *)
(* handleSubmit invocations that are suspended at an await.                *)
(*                                                                         *)
(* JavaScript runs each event handler, and each continuation after an      *)
(* await, to completion; React commits the state updates of one such run   *)
(* together and re-renders before the next event is dispatched.  So every  *)
(* action below is one handler run (or one continuation), a handler reads  *)
(* the current state, and a continuation reads what its invocation         *)
(* captured when it was started (its closure: prompt and uploadedImage).   *)
(***************************************************************************)
EXTENDS Naturals, Sequences, FiniteSets, TLC

VARIABLES
    prompt,          \* useState<string>: a sequence of characters
    generatedImage,  \* useState<string | null>
    uploadedImage,   \* useState<{file, preview} | null>: <<>> or <<record>>
    isLoading,       \* useState<boolean>
    error,           \* useState<string | null>
    fileInputValue,  \* fileInputRef.current.value
    running,         \* handleSubmit invocations suspended at an await
    created,         \* number of URL.createObjectURL calls; URLs are 1..created
    revoked,         \* URL.revokeObjectURL calls per URL
    saved,           \* the anchor the last download clicked: <<>> or <<record>>
    logged,          \* the last cause given to console.error, or Null
    lastEvent,       \* the event whose handler (or continuation) ran last
    mounted          \* the component is mounted

vars == <<prompt, generatedImage, uploadedImage, isLoading, error,
          fileInputValue, running, created, revoked, saved, logged,
          lastEvent, mounted>>

\* ------------------------------------------------------------------ bounds

MaxPromptLen == 2
MaxUrls == 2

\* ------------------------------------------------------------------ values

Null == "<null>"

\* The characters a prompt is typed from: one whitespace, one other.
Chars == {" ", "a"}

\* String.prototype.trim strips these from both ends.
Whitespace == {" ", "\t", "\n"}

Prompts == UNION {[1..n -> Chars] : n \in 0..MaxPromptLen}

\* The files the picker can hand over (accept: png, jpeg, webp), each with
\* the base64 encoding of its bytes; the last one is an empty file.
Files ==
    { [name |-> "a.png",  type |-> "image/png",  b64 |-> "QQ=="],
      [name |-> "b.jpg",  type |-> "image/jpeg", b64 |-> "Qg=="],
      [name |-> "c.webp", type |-> "image/webp", b64 |-> ""] }

\* e.target.files: no file, or the selected one first.
FileLists == {<<>>} \cup {<<f>> : f \in Files}

\* What generateImage can resolve with.
Payloads == {"Zm9v", ""}

\* Why fileToBase64 or generateImage can reject.
Causes == {"encoding", "network", "service"}

ErrorMessage == "Failed to generate image. Please try again later."

DownloadName == "generated-image.png"

\* A JavaScript string value used as a condition.
Truthy(s) == s # Null /\ s # ""

\* ------------------------------------------------------------ pure helpers

RECURSIVE TrimStart(_)
TrimStart(s) ==
    IF s # <<>> /\ Head(s) \in Whitespace THEN TrimStart(Tail(s)) ELSE s

RECURSIVE TrimEnd(_)
TrimEnd(s) ==
    IF s # <<>> /\ s[Len(s)] \in Whitespace
    THEN TrimEnd(SubSeq(s, 1, Len(s) - 1))
    ELSE s

\* prompt.trim()
trim(s) == TrimEnd(TrimStart(s))

\* FileReader.readAsDataURL: the results reader.result can hold, each kept
\* as the pieces a split(',') can cut at.  It is "data:<type>;base64,<content>";
\* for a file of no bytes the browser decides between that and a bare
\* "data:" (Chromium's reader stops after the scheme when nothing was read).
readAsDataURL(file) ==
    {<<"data:" \o file.type \o ";base64", ",", file.b64>>}
        \cup (IF file.b64 = "" THEN {<<"data:">>} ELSE {})

RECURSIVE Concat(_)
Concat(parts) ==
    IF parts = <<>> THEN "" ELSE Head(parts) \o Concat(Tail(parts))

\* String.prototype.split(','): the pieces between the commas.
RECURSIVE split(_)
split(s) ==
    IF \A i \in 1..Len(s) : s[i] # ","
    THEN <<Concat(s)>>
    ELSE LET k == CHOOSE i \in 1..Len(s) :
                      s[i] = "," /\ \A j \in 1..(i - 1) : s[j] # ","
         IN  <<Concat(SubSeq(s, 1, k - 1))>> \o split(SubSeq(s, k + 1, Len(s)))

\* What fileToBase64 can resolve with: split(',')[1] of the reader's
\* result (JavaScript counts from 0); Null stands for undefined.
fileToBase64(file) ==
    { IF Len(split(result)) >= 2 THEN split(result)[2] ELSE Null :
          result \in readAsDataURL(file) }

\* The value the browser gives the file input for a selection.
InputValue(files) == IF files = <<>> THEN "" ELSE files[1].name

\* The payload wrapped under another media type.
imageUrl_Jpeg(base64Image) == "data:image/jpeg;base64," \o base64Image

\* `data:image/png;base64,${base64Image}`
imageUrl(base64Image) == "data:image/png;base64," \o base64Image

\* s without its i-th element.
RemoveAt(s, i) == SubSeq(s, 1, i - 1) \o SubSeq(s, i + 1, Len(s))

\* ------------------------------------------------------------------- state

Init ==
    /\ prompt = <<>>
    /\ generatedImage = Null
    /\ uploadedImage = <<>>
    /\ isLoading = FALSE
    /\ error = Null
    /\ fileInputValue = ""
    /\ running = <<>>
    /\ created = 0
    /\ revoked = [u \in 1..MaxUrls |-> 0]
    /\ saved = <<>>
    /\ logged = Null
    /\ lastEvent = "none"
    /\ mounted = TRUE

\* ----------------------------------------------------------------- actions

\* onChange of the textarea: setPrompt(e.target.value).
setPrompt(value) ==
    /\ mounted
    /\ value # prompt
    /\ prompt' = value
    /\ lastEvent' = "edit"
    /\ UNCHANGED <<generatedImage, uploadedImage, isLoading, error,
                   fileInputValue, running, created, revoked, saved, logged,
                   mounted>>

\* The previous preview is never released.
RevokePreview_Skipped == revoked

\* URL.revokeObjectURL(uploadedImage.preview), when an upload is stored.
RevokePreview ==
    IF uploadedImage # <<>>
    THEN [revoked EXCEPT ![uploadedImage[1].preview] = @ + 1]
    ELSE revoked

\* An upload handler that leaves the previous result and error in place.
handleImageUpload_KeepsOutput(files) ==
    /\ mounted
    /\ InputValue(files) # fileInputValue
    /\ fileInputValue' = InputValue(files)
    /\ lastEvent' = "upload"
    /\ IF files # <<>>
       THEN /\ created < MaxUrls
            /\ revoked' = RevokePreview
            /\ created' = created + 1
            /\ uploadedImage' = <<[file |-> files[1], preview |-> created + 1]>>
       ELSE UNCHANGED <<revoked, created, uploadedImage>>
    /\ UNCHANGED <<prompt, generatedImage, error, isLoading, running, saved,
                   logged, mounted>>

\* onChange of the file input.  The browser fires it when the selection
\* changes, with the input's value already that of the new selection.
handleImageUpload(files) ==
    /\ mounted
    /\ InputValue(files) # fileInputValue
    /\ fileInputValue' = InputValue(files)
    /\ lastEvent' = "upload"
    /\ IF files # <<>>
       THEN /\ created < MaxUrls
            /\ revoked' = RevokePreview
            /\ created' = created + 1
            /\ uploadedImage' = <<[file |-> files[1], preview |-> created + 1]>>
            /\ generatedImage' = Null
            /\ error' = Null
       ELSE UNCHANGED <<revoked, created, uploadedImage, generatedImage, error>>
    /\ UNCHANGED <<prompt, isLoading, running, saved, logged, mounted>>

\* A remove handler that also resets the output pane, as the upload does.
removeUploadedImage_ClearsOutput ==
    /\ mounted
    /\ revoked' = RevokePreview
    /\ uploadedImage' = <<>>
    /\ fileInputValue' = ""
    /\ generatedImage' = Null
    /\ error' = Null
    /\ lastEvent' = "remove"
    /\ UNCHANGED <<prompt, isLoading, running, created, saved, logged, mounted>>

\* A remove handler that does not reset the file input.
removeUploadedImage_KeepsInputValue ==
    /\ mounted
    /\ revoked' = RevokePreview
    /\ uploadedImage' = <<>>
    /\ lastEvent' = "remove"
    /\ UNCHANGED <<prompt, generatedImage, isLoading, error, running, created,
                   fileInputValue, saved, logged, mounted>>

\* onClick of the remove button.  The input element is always rendered, so
\* fileInputRef.current is set and its value is reset.
removeUploadedImage ==
    /\ mounted
    /\ revoked' = RevokePreview
    /\ uploadedImage' = <<>>
    /\ fileInputValue' = ""
    /\ lastEvent' = "remove"
    /\ UNCHANGED <<prompt, generatedImage, isLoading, error, running, created,
                   saved, logged, mounted>>

\* The guard without its isLoading test.
SubmitIgnored_NoLoadingCheck == trim(prompt) = <<>>

\* The guard testing the prompt as typed, not trimmed.
SubmitIgnored_NoTrim == prompt = <<>> \/ isLoading

\* The guard also refusing while an error is shown.
SubmitIgnored_BlockedAfterError ==
    trim(prompt) = <<>> \/ isLoading \/ error # Null

\* if (!prompt.trim() || isLoading) return;
SubmitIgnored == trim(prompt) = <<>> \/ isLoading

\* The invocation as it is suspended at its first await: at fileToBase64
\* when an upload is stored, else at generateImage, called without an image.
StartRequest ==
    IF uploadedImage # <<>>
    THEN [prompt |-> prompt, file |-> <<uploadedImage[1].file>>,
          pc |-> "fileToBase64", imageInput |-> <<>>]
    ELSE [prompt |-> prompt, file |-> <<>>,
          pc |-> "generateImage", imageInput |-> <<>>]

\* A submission that leaves the previous error in place.
SubmitStart_KeepError ==
    /\ isLoading' = TRUE
    /\ generatedImage' = Null
    /\ UNCHANGED error

\* A submission that leaves the previous result in place.
SubmitStart_KeepResult ==
    /\ isLoading' = TRUE
    /\ error' = Null
    /\ UNCHANGED generatedImage

\* setIsLoading(true); setError(null); setGeneratedImage(null);
SubmitStart ==
    /\ isLoading' = TRUE
    /\ error' = Null
    /\ generatedImage' = Null

\* onSubmit of the form, up to the first await.
handleSubmit ==
    /\ mounted
    /\ lastEvent' = "submit"
    /\ IF SubmitIgnored
       THEN UNCHANGED <<isLoading, error, generatedImage, running>>
       ELSE /\ SubmitStart
            /\ running' = Append(running, StartRequest)
    /\ UNCHANGED <<prompt, uploadedImage, fileInputValue, created, revoked,
                   saved, logged, mounted>>

\* A continuation that reads the stored upload, not the captured one.
EncodeResolve_ReadsCurrentUpload(i) ==
    /\ mounted
    /\ i \in 1..Len(running)
    /\ running[i].pc = "fileToBase64"
    /\ LET file == IF uploadedImage # <<>> THEN uploadedImage[1].file
                   ELSE running[i].file[1]
       IN  \E base64Data \in fileToBase64(file) :
               running' = [running EXCEPT
                   ![i].pc = "generateImage",
                   ![i].imageInput = <<[data |-> base64Data,
                                        mimeType |-> file.type]>>]
    /\ lastEvent' = "encoded"
    /\ UNCHANGED <<prompt, generatedImage, uploadedImage, isLoading, error,
                   fileInputValue, created, revoked, saved, logged, mounted>>

\* reader.onload: fileToBase64 resolves, imageInput is built and
\* generateImage is called with the captured prompt.
EncodeResolve(i) ==
    /\ mounted
    /\ i \in 1..Len(running)
    /\ running[i].pc = "fileToBase64"
    /\ LET file == running[i].file[1]
       IN  \E base64Data \in fileToBase64(file) :
               running' = [running EXCEPT
                   ![i].pc = "generateImage",
                   ![i].imageInput = <<[data |-> base64Data,
                                        mimeType |-> file.type]>>]
    /\ lastEvent' = "encoded"
    /\ UNCHANGED <<prompt, generatedImage, uploadedImage, isLoading, error,
                   fileInputValue, created, revoked, saved, logged, mounted>>

\* A catch block that is not followed by the finally block.
Fail_KeepLoading(i, cause) ==
    /\ error' = ErrorMessage
    /\ logged' = cause
    /\ running' = RemoveAt(running, i)
    /\ lastEvent' = "rejected"
    /\ UNCHANGED <<prompt, generatedImage, uploadedImage, isLoading,
                   fileInputValue, created, revoked, saved, mounted>>

\* A catch block that shows the cause to the user.
Fail_ShowsCause(i, cause) ==
    /\ error' = cause
    /\ logged' = cause
    /\ isLoading' = FALSE
    /\ running' = RemoveAt(running, i)
    /\ lastEvent' = "rejected"
    /\ UNCHANGED <<prompt, generatedImage, uploadedImage, fileInputValue,
                   created, revoked, saved, mounted>>

\* catch (err) { setError(...); console.error(err) } finally { setIsLoading(false) }
Fail(i, cause) ==
    /\ error' = ErrorMessage
    /\ logged' = cause
    /\ isLoading' = FALSE
    /\ running' = RemoveAt(running, i)
    /\ lastEvent' = "rejected"
    /\ UNCHANGED <<prompt, generatedImage, uploadedImage, fileInputValue,
                   created, revoked, saved, mounted>>

\* A reader error that is swallowed: the call goes out without an image.
EncodeReject_StillCalls(i) ==
    /\ mounted
    /\ i \in 1..Len(running)
    /\ running[i].pc = "fileToBase64"
    /\ running' = [running EXCEPT ![i].pc = "generateImage"]
    /\ logged' = "encoding"
    /\ lastEvent' = "rejected"
    /\ UNCHANGED <<prompt, generatedImage, uploadedImage, isLoading, error,
                   fileInputValue, created, revoked, saved, mounted>>

\* reader.onerror: fileToBase64 rejects.
EncodeReject(i) ==
    /\ mounted
    /\ i \in 1..Len(running)
    /\ running[i].pc = "fileToBase64"
    /\ Fail(i, "encoding")

\* A success path that is not followed by the finally block.
GenerateResolve_KeepLoading(i, base64Image) ==
    /\ mounted
    /\ i \in 1..Len(running)
    /\ running[i].pc = "generateImage"
    /\ generatedImage' = imageUrl(base64Image)
    /\ running' = RemoveAt(running, i)
    /\ lastEvent' = "resolved"
    /\ UNCHANGED <<prompt, uploadedImage, isLoading, error, fileInputValue,
                   created, revoked, saved, logged, mounted>>

\* generateImage resolves with base64Image.
GenerateResolve(i, base64Image) ==
    /\ mounted
    /\ i \in 1..Len(running)
    /\ running[i].pc = "generateImage"
    /\ generatedImage' = imageUrl(base64Image)
    /\ isLoading' = FALSE
    /\ running' = RemoveAt(running, i)
    /\ lastEvent' = "resolved"
    /\ UNCHANGED <<prompt, uploadedImage, error, fileInputValue, created,
                   revoked, saved, logged, mounted>>

\* generateImage rejects.
GenerateReject(i, cause) ==
    /\ mounted
    /\ i \in 1..Len(running)
    /\ running[i].pc = "generateImage"
    /\ cause # "encoding"
    /\ Fail(i, cause)

\* A download handler without its guard.
handleDownload_NoGuard ==
    /\ mounted
    /\ lastEvent' = "download"
    /\ saved' = <<[href |-> generatedImage, download |-> DownloadName]>>
    /\ UNCHANGED <<prompt, generatedImage, uploadedImage, isLoading, error,
                   fileInputValue, running, created, revoked, logged, mounted>>

\* handleDownload: nothing without a generated image, else a click on a
\* transient anchor.
handleDownload ==
    /\ mounted
    /\ lastEvent' = "download"
    /\ IF ~Truthy(generatedImage)
       THEN UNCHANGED saved
       ELSE saved' = <<[href |-> generatedImage, download |-> DownloadName]>>
    /\ UNCHANGED <<prompt, generatedImage, uploadedImage, isLoading, error,
                   fileInputValue, running, created, revoked, logged, mounted>>

\* The component is unmounted.  App registers no effect, so no code of it
\* runs; its state is discarded and nothing of it is observed afterwards.
Teardown ==
    /\ mounted
    /\ mounted' = FALSE
    /\ lastEvent' = "unmount"
    /\ UNCHANGED <<prompt, generatedImage, uploadedImage, isLoading, error,
                   fileInputValue, running, created, revoked, saved, logged>>

\* The encoding of a suspended invocation resolves or rejects.
EncodeSettle ==
    \E i \in 1..Len(running) : EncodeResolve(i) \/ EncodeReject(i)

\* The external call of a suspended invocation resolves or rejects.
GenerateSettle ==
    \E i \in 1..Len(running) :
        \/ \E b \in Payloads : GenerateResolve(i, b)
        \/ \E c \in Causes : GenerateReject(i, c)

Session ==
    \/ \E v \in Prompts : setPrompt(v)
    \/ \E files \in FileLists : handleImageUpload(files)
    \/ removeUploadedImage
    \/ handleSubmit
    \/ handleDownload
    \/ \E i \in 1..Len(running) : EncodeResolve(i)
    \/ \E i \in 1..Len(running) : EncodeReject(i)
    \/ \E i \in 1..Len(running), b \in Payloads : GenerateResolve(i, b)
    \/ \E i \in 1..Len(running), c \in Causes : GenerateReject(i, c)

Next == Session \/ Teardown

Spec == Init /\ [][Next]_vars

\* The session while the component stays mounted, every started encoding
\* and every issued call eventually resolving or rejecting.
LiveSpec ==
    Init /\ [][Session]_vars /\ WF_vars(EncodeSettle) /\ WF_vars(GenerateSettle)

\* ------------------------------------------------------------------ render

\* The placeholder block without its !error test.
Rendered_PlaceholderIgnoresError ==
       (IF isLoading THEN {"loading"} ELSE {})
    \cup (IF Truthy(error) THEN {"error"} ELSE {})
    \cup (IF ~isLoading /\ ~Truthy(error) /\ Truthy(generatedImage)
          THEN {"result"} ELSE {})
    \cup (IF ~isLoading /\ ~Truthy(generatedImage) THEN {"empty"} ELSE {})

\* What the output pane renders (the four conditional blocks).
Rendered ==
       (IF isLoading THEN {"loading"} ELSE {})
    \cup (IF Truthy(error) THEN {"error"} ELSE {})
    \cup (IF ~isLoading /\ ~Truthy(error) /\ Truthy(generatedImage)
          THEN {"result"} ELSE {})
    \cup (IF ~isLoading /\ ~Truthy(error) /\ ~Truthy(generatedImage)
          THEN {"empty"} ELSE {})


\* The state of the output pane, by the precedence of the render blocks.
PaneState ==
    IF isLoading THEN "Loading"
    ELSE IF Truthy(error) THEN "Failure"
    ELSE IF Truthy(generatedImage) THEN "Success"
    ELSE "Idle"

\* The object URLs created and not yet revoked.
LiveUrls == {u \in 1..created : revoked[u] = 0}

\* The preview of the stored upload, if any.
StoredPreviews == {uploadedImage[k].preview : k \in DOMAIN uploadedImage}

\* The program state a submit event can touch (all but the event history).
AppState == <<prompt, generatedImage, uploadedImage, isLoading, error,
              fileInputValue, running, created, revoked, saved, logged,
              mounted>>

\* ------------------------------------------------------------------ claims

\* C1: while a submission is in flight (accepted, not yet completed), a
\* further submit event starts no encoding, issues no call and changes no
\* state; so at most one handleSubmit invocation is ever in flight.
C1_InFlightSubmitIsNoOp ==
    /\ [](Len(running) <= 1)
    /\ [][(lastEvent' = "submit" /\ running # <<>>) => UNCHANGED AppState]_vars

\* A submit event was handled while a request was in flight whose prompt
\* is not the current (non-blank) prompt: only the isLoading test ignored it.
C1_Witness ==
    /\ lastEvent = "submit"
    /\ running # <<>>
    /\ trim(prompt) # <<>>
    /\ running[1].prompt # prompt

\* C2: a submit event whose prompt is empty or only whitespace starts no
\* encoding and no external call, and leaves loading, error, generated
\* image and upload state unchanged.
C2_BlankSubmitIsNoOp ==
    [][(lastEvent' = "submit" /\ trim(prompt) = <<>>) =>
          UNCHANGED <<running, isLoading, error, generatedImage,
                      uploadedImage, fileInputValue, created, revoked>>]_vars

\* A submit event was handled with a whitespace-only prompt, nothing in
\* flight and an upload stored: only the trim test ignored it.
C2_Witness ==
    /\ lastEvent = "submit"
    /\ prompt # <<>>
    /\ trim(prompt) = <<>>
    /\ ~isLoading
    /\ uploadedImage # <<>>

\* C3: in the state a successful completion of the external call leaves,
\* the generated image is set and is the one thing rendered, the loading
\* flag is false and the error message is absent.
C3_SuccessOutcome ==
    lastEvent = "resolved" =>
        /\ Truthy(generatedImage)
        /\ isLoading = FALSE
        /\ error = Null
        /\ Rendered = {"result"}

\* A success that follows an earlier failure, with an upload stored.
C3_Witness ==
    /\ lastEvent = "resolved"
    /\ Truthy(generatedImage)
    /\ logged # Null
    /\ uploadedImage # <<>>

\* C4: in the state a failed attempt (encoding or external call rejected)
\* leaves, the loading flag is false, no generated image is stored and an
\* error message is present.
C4_FailureOutcome ==
    lastEvent = "rejected" =>
        /\ isLoading = FALSE
        /\ generatedImage = Null
        /\ Truthy(error)
        /\ Rendered = {"error"}

\* The encoding of an upload was rejected after the upload had been removed
\* while the attempt was in flight.
C4_Witness ==
    /\ lastEvent = "rejected"
    /\ logged = "encoding"
    /\ uploadedImage = <<>>
    /\ Truthy(error)

\* C5: when every encoding and every external call eventually resolves or
\* rejects, loading true is always followed by loading false, and only the
\* completion of the in-flight attempt turns the loading flag off.
C5_LoadingEventuallyCleared ==
    /\ isLoading ~> ~isLoading
    /\ [][(isLoading /\ ~isLoading') =>
              lastEvent' \in {"resolved", "rejected"}]_vars

\* The loading flag is still true after a remove event handled in flight.
C5_Witness ==
    /\ isLoading
    /\ lastEvent = "remove"
    /\ running # <<>>

\* C6: the loading flag is true only while a handleSubmit invocation is in
\* flight; it is false initially and after every completion.
C6_LoadingOnlyInFlight ==
    /\ isLoading => running # <<>>
    /\ lastEvent \in {"none", "resolved", "rejected"} => ~isLoading

\* Loading, with the upload encoded and the external call in flight.
C6_Witness ==
    /\ isLoading
    /\ running # <<>>
    /\ running[1].pc = "generateImage"
    /\ running[1].imageInput # <<>>

\* C7: the output pane renders exactly one of loading indicator, error
\* message, result image and placeholder; never the error with the loading
\* indicator, never the result with either.
C7_OneVisualState ==
    /\ Cardinality(Rendered) = 1
    /\ ~({"loading", "error"} \subseteq Rendered)
    /\ "result" \in Rendered => Rendered \cap {"loading", "error"} = {}

\* The error message alone is rendered, beside a stored upload.
C7_Witness ==
    /\ Rendered = {"error"}
    /\ uploadedImage # <<>>
    /\ lastEvent = "edit"

\* C8: every preview URL is revoked at most once, and the URLs created and
\* not revoked are exactly the preview of the stored upload: a replaced or
\* removed upload's URL is revoked in the very step that drops it.
C8_PreviewUrlsReleasedOnce ==
    /\ \A u \in 1..MaxUrls : revoked[u] <= 1
    /\ \A u \in 1..MaxUrls : u > created => revoked[u] = 0
    /\ LiveUrls = StoredPreviews

\* One upload was replaced and its successor removed: both URLs revoked once.
C8_Witness ==
    /\ created = 2
    /\ uploadedImage = <<>>
    /\ revoked[1] = 1
    /\ revoked[2] = 1

\* C9: after the component is torn down, no created preview URL remains
\* unrevoked.
C9_TeardownReleasesPreview ==
    ~mounted => LiveUrls = {}

\* C10 as stated: the pane starts Idle and moves only from Idle, Success
\* or Failure to Loading on a submission, and from Loading to Success or
\* Failure on completion.
C10_PaneTransitionsAsStated ==
    /\ PaneState = "Idle"
    /\ [][PaneState' # PaneState =>
            \/ /\ PaneState \in {"Idle", "Success", "Failure"}
               /\ PaneState' = "Loading"
               /\ lastEvent' = "submit"
            \/ /\ PaneState = "Loading"
               /\ PaneState' = "Success"
               /\ lastEvent' = "resolved"
            \/ /\ PaneState = "Loading"
               /\ PaneState' = "Failure"
               /\ lastEvent' = "rejected"]_vars

\* C10 amended: besides those transitions, an upload event that selects a
\* file moves the pane from Success or Failure to Idle; remove, download
\* and prompt edit never move it.
C10_PaneTransitions ==
    /\ PaneState = "Idle"
    /\ [][PaneState' # PaneState =>
            \/ /\ PaneState \in {"Idle", "Success", "Failure"}
               /\ PaneState' = "Loading"
               /\ lastEvent' = "submit"
            \/ /\ PaneState = "Loading"
               /\ PaneState' = "Success"
               /\ lastEvent' = "resolved"
            \/ /\ PaneState = "Loading"
               /\ PaneState' = "Failure"
               /\ lastEvent' = "rejected"
            \/ /\ PaneState \in {"Success", "Failure"}
               /\ PaneState' = "Idle"
               /\ lastEvent' = "upload"
               /\ uploadedImage' # uploadedImage]_vars

\* The only file ever selected was selected after a result had been shown
\* and downloaded, and the pane is Idle again.
C10_Witness ==
    /\ lastEvent = "upload"
    /\ created = 1
    /\ fileInputValue # ""
    /\ saved # <<>>
    /\ PaneState = "Idle"

\* A submit step that was accepted: it started an invocation.
Accepted == lastEvent' = "submit" /\ running' # running

\* An upload step that selected a file.
Uploaded == lastEvent' = "upload" /\ uploadedImage' # uploadedImage

\* C11: the generated image becomes non-empty only by a successful
\* completion, and it is empty, like the error message, right after every
\* upload of a file and every accepted submission.
C11_ResultSetOnlyBySuccess ==
    /\ [][(generatedImage' # generatedImage /\ generatedImage' # Null) =>
              lastEvent' = "resolved"]_vars
    /\ [][(Uploaded \/ Accepted) =>
              (generatedImage' = Null /\ error' = Null)]_vars

\* The first file ever selected was selected while an error from a failed
\* attempt was shown; result and error are both empty after it.
C11_Witness ==
    /\ lastEvent = "upload"
    /\ created = 1
    /\ fileInputValue # ""
    /\ logged # Null
    /\ saved = <<>>
    /\ ~isLoading
    /\ generatedImage = Null
    /\ error = Null

\* C12: the external call carries the captured prompt and, exactly when an
\* upload was stored at submission, the image {data: the base64 of the
\* file's bytes, mimeType: the file's type}; without an upload, no image.
C12_CallCarriesUpload ==
    \A i \in 1..Len(running) :
        running[i].pc = "generateImage" =>
            running[i].imageInput =
                IF running[i].file # <<>>
                THEN <<[data |-> running[i].file[1].b64,
                        mimeType |-> running[i].file[1].type]>>
                ELSE <<>>

\* C13: the stored result is "data:image/png;base64," followed by the
\* payload the call resolved with; "Zm9v" gives "data:image/png;base64,Zm9v".
C13_ResultIsPngDataUrl ==
    /\ [](generatedImage \in {Null, "data:image/png;base64,Zm9v",
                              "data:image/png;base64,"})
    /\ [][\A b \in Payloads :
              (\E i \in 1..Len(running) : GenerateResolve(i, b)) =>
                  generatedImage' = "data:image/png;base64," \o b]_vars

\* With no upload ever made, the call resolved with "Zm9v".
C13_Witness ==
    /\ lastEvent = "resolved"
    /\ created = 0
    /\ generatedImage = "data:image/png;base64,Zm9v"
    /\ Rendered = {"result"}

\* The state the user sees.
Visible == <<prompt, generatedImage, uploadedImage, isLoading, error,
             fileInputValue>>

\* C14: the error message is absent or the one fixed string, and the state
\* a failure shows to the user is decided by the state before it alone,
\* whatever the cause.
C14_ErrorMessageIsGeneric ==
    /\ [](error \in {Null,
                     "Failed to generate image. Please try again later."})
    /\ [][lastEvent' = "rejected" =>
              Visible' = <<prompt, generatedImage, uploadedImage, FALSE,
                           "Failed to generate image. Please try again later.",
                           fileInputValue>>]_vars

\* A failure of the service, logged as such, shown as the fixed message.
C14_Witness ==
    /\ lastEvent = "rejected"
    /\ logged = "service"
    /\ error = ErrorMessage
    /\ uploadedImage # <<>>

\* The external calls in flight: invocations suspended at generateImage.
CallsInFlight == {i \in 1..Len(running) : running[i].pc = "generateImage"}

\* Nothing is retried: a failure leaves no invocation behind, an invocation
\* is started only by a submit event, and a call is issued only in the
\* submit step or when the encoding started by one resolves.
NoRetry ==
    /\ [](lastEvent = "rejected" => running = <<>>)
    /\ [][Len(running') > Len(running) => lastEvent' = "submit"]_vars
    /\ [][Cardinality(CallsInFlight') > Cardinality(CallsInFlight) =>
              lastEvent' \in {"submit", "encoded"}]_vars

\* After a failure, a submit with a non-blank prompt is accepted: it
\* clears the error, sets loading and starts one invocation.
ResubmitAccepted ==
    [][(lastEvent' = "submit" /\ PaneState = "Failure"
            /\ trim(prompt) # <<>>) =>
          /\ error' = Null
          /\ isLoading' = TRUE
          /\ Len(running') = 1
          /\ running'[1].prompt = prompt
          /\ (uploadedImage = <<>> => running'[1].pc = "generateImage")
          /\ (uploadedImage # <<>> => running'[1].pc = "fileToBase64")]_vars

\* C15 as stated: no retry after a failure, the next non-blank submission
\* is accepted, and it issues exactly one external call: no started
\* invocation ends before its call has been issued.
C15_ResubmitIssuesOneCall ==
    /\ NoRetry
    /\ ResubmitAccepted
    /\ [][(running # <<>> /\ Len(running') < Len(running)) =>
              running[1].pc = "generateImage"]_vars

\* C15 amended: no retry after a failure, the next non-blank submission is
\* accepted and starts exactly one attempt, which issues one external call
\* unless the encoding of the stored upload rejects, and then none.
C15_ResubmitStartsOneAttempt ==
    /\ NoRetry
    /\ ResubmitAccepted
    /\ [][(running # <<>> /\ Len(running') < Len(running)) =>
              \/ running[1].pc = "generateImage"
              \/ /\ running[1].pc = "fileToBase64"
                 /\ lastEvent' = "rejected"
                 /\ logged' = "encoding"]_vars

\* With no upload ever made, a submission after a failure was accepted:
\* the error is cleared and its call is in flight.
C15_Witness ==
    /\ lastEvent = "submit"
    /\ created = 0
    /\ logged # Null
    /\ error = Null
    /\ isLoading
    /\ CallsInFlight = {1}

\* C16: a remove event leaves no stored upload and an empty file input, so
\* that selecting any file again fires an upload event; it revokes the
\* stored preview, nothing when no upload is stored, and changes nothing else.
C16_RemoveFrame ==
    /\ [][lastEvent' = "remove" =>
            /\ uploadedImage' = <<>>
            /\ fileInputValue' = ""
            /\ UNCHANGED <<prompt, generatedImage, error, isLoading, running,
                           created, saved, logged>>
            /\ revoked' =
                 IF uploadedImage = <<>> THEN revoked
                 ELSE [revoked EXCEPT ![uploadedImage[1].preview] = @ + 1]]_vars
    /\ []((lastEvent = "remove" /\ created < MaxUrls) =>
              \A f \in Files : ENABLED handleImageUpload(<<f>>))

\* The one upload was removed while the result generated from it is shown.
C16_Witness ==
    /\ lastEvent = "remove"
    /\ uploadedImage = <<>>
    /\ created = 1
    /\ revoked[1] = 1
    /\ Truthy(generatedImage)

\* C17: a download saves the stored result under generated-image.png when
\* a generated image exists and does nothing otherwise; either way it
\* changes no state variable.
C17_DownloadFrame ==
    [][lastEvent' = "download" =>
          /\ UNCHANGED <<prompt, generatedImage, uploadedImage, isLoading,
                         error, fileInputValue, running, created, revoked,
                         logged>>
          /\ saved' =
               IF generatedImage # Null /\ generatedImage # ""
               THEN <<[href |-> generatedImage,
                       download |-> "generated-image.png"]>>
               ELSE saved]_vars

\* A download with no generated image, after one that saved a result.
C17_Witness ==
    /\ lastEvent = "download"
    /\ generatedImage = Null
    /\ saved # <<>>
    /\ saved[1].download = "generated-image.png"

\* C18: when the encoding of the upload rejects, the attempt ends there,
\* its external call never issued, in the failure outcome.
C18_EncodingFailureSkipsCall ==
    [][(running # <<>> /\ running[1].pc = "fileToBase64"
            /\ lastEvent' = "rejected") =>
          /\ running' = <<>>
          /\ error' = ErrorMessage
          /\ isLoading' = FALSE
          /\ generatedImage' = Null]_vars

\* The encoding of the stored upload was rejected.
C18_Witness ==
    /\ lastEvent = "rejected"
    /\ logged = "encoding"
    /\ running = <<>>
    /\ uploadedImage # <<>>
    /\ error = ErrorMessage
    /\ ~isLoading

\* C19: an invocation carries the prompt and the upload of its submission;
\* upload, remove, edit and download events leave it as it is, the image
\* it sends is that of the captured file, and its success is stored
\* whatever the stored upload has become.
C19_InFlightRequestUntouched ==
    /\ [][Accepted =>
            /\ running'[Len(running')].prompt = prompt
            /\ running'[Len(running')].file =
                 [k \in DOMAIN uploadedImage |-> uploadedImage[k].file]]_vars
    /\ [][lastEvent' \in {"upload", "remove", "edit", "download"} =>
              running' = running]_vars
    /\ [](\A i \in CallsInFlight :
            /\ Len(running[i].imageInput) = Len(running[i].file)
            /\ \A k \in DOMAIN running[i].file :
                   running[i].imageInput[k].mimeType = running[i].file[k].type)
    /\ [][lastEvent' = "resolved" =>
              (generatedImage' # Null /\ UNCHANGED uploadedImage)]_vars

\* A call is in flight with the image of one file and the prompt of its
\* submission while another file is stored and the prompt has been edited.
C19_Witness ==
    /\ CallsInFlight = {1}
    /\ running[1].imageInput # <<>>
    /\ uploadedImage # <<>>
    /\ uploadedImage[1].file # running[1].file[1]
    /\ prompt # running[1].prompt

\* C20: the stored error message and the stored generated image are never
\* both set.
C20_ErrorAndResultExclusive ==
    ~(error # Null /\ generatedImage # Null)

\* A failure after a result had been shown and downloaded: the error is
\* stored, the result is not.
C20_Witness ==
    /\ lastEvent = "rejected"
    /\ saved # <<>>
    /\ error # Null
    /\ generatedImage = Null

=============================================================================
